---- MODULE Spec2Model ----
(***************************************************************************)
(* CompliLedger PoC: the company portal's verification life cycle          *)
(* (upload, submit, status polling) and the SBOMRegistry ledger contract.  *)
(*                                                                         *)
(* Company portal: frontend/src/pages/CompanyPortal.tsx and                *)
(* frontend/src/lib/api.ts.  A "run" is one execution of the polling       *)
(* useEffect body: it owns the closure (artifactHash, verificationStatus,  *)
(* attempts) of its tick function.                                         *)
(***************************************************************************)
EXTENDS Integers, Sequences, FiniteSets, TLC

\* ------------------------------------------------------------------ bounds
MaxRuns     == 2    \* executions of the polling effect body
MaxAttempts == 4    \* completed non-terminal polls per run
MaxCalls    == 4    \* application calls sent by externally owned accounts

\* --------------------------------------------------------------- constants
FirstDelay   == 3000   \* CompanyPortal.tsx:98
LaterDelay   == 8000   \* CompanyPortal.tsx:98
FastAttempts == 3      \* CompanyPortal.tsx:98

\* The files the user uploads.  The backend answers the upload of file f
\* with an artifact_id and an artifact_hash of its own; both are written f.
Files    == {"a.json", "b.json"}
NoHash   == "null"     \* artifactId / artifactHash / uploadedFile === null
NoTimer  == 0          \* pollingRef.current === null
NoStatus == "none"     \* verificationStatus === null

\* members of the verificationApi object exported by lib/api.ts
VerificationApiExported == {"submit", "status", "reports"}
\* the same object with the member CompanyPortal.startAnalysis calls
VerificationApiExpected == VerificationApiExported \cup {"submitByArtifact"}

\* --------------------------------------------------- status responses
NoCode == 99           \* typeof s.status_code !== 'number'
Codes  == {0, 1, 2, NoCode}
Texts  == {"pending", "verified", "success", "failed"}
StatusResponses == [code : Codes, text : Texts]

\* text.includes(needle) for the lower-cased status texts above
includes(text, needle) ==
  \/ text = needle
  \/ text = "failed" /\ needle = "fail"

\* CompanyPortal.tsx:75-81, the badge value set from one response
NormalizeStatus(s) ==
  IF s.code = 1 \/ includes(s.text, "verified") \/ includes(s.text, "success")
    THEN "verified"
  ELSE IF s.code = 2 \/ includes(s.text, "fail")
    THEN "failed"
  ELSE "pending"

\* CompanyPortal.tsx:84, evaluated with the verificationStatus captured by
\* the render whose effect created the tick closure
IsTerminalDropCode(closureStatus, s) ==
  closureStatus = "verified" \/ closureStatus = "failed"

IsTerminal(closureStatus, s) ==
  \/ closureStatus = "verified"
  \/ closureStatus = "failed"
  \/ s.code = 1
  \/ s.code = 2

\* CompanyPortal.tsx:98
BackoffFlat(attempts) == FirstDelay

Backoff(attempts) == IF attempts <= FastAttempts THEN FirstDelay ELSE LaterDelay

VARIABLES
  verificationApi,     \* members of the imported verificationApi object
  mounted,             \* the CompanyPortal component is mounted
  uploadedFile,        \* useState uploadedFile
  artifactId,          \* useState artifactId
  artifactHash,        \* useState artifactHash
  complianceStandard,  \* useState complianceStandard
  isAnalyzing,         \* useState isAnalyzing
  verificationStatus,  \* useState verificationStatus
  shouldPoll,          \* useState shouldPoll
  pollingRef,          \* pollingRef.current: id of the timer armed last
  uploads,             \* artifactsApi.upload calls in flight
  submitting,          \* artifact id of the submit call in flight
  runs,                \* polling effect executions, in creation order
  effectRun,           \* run whose cleanup React holds (0: none)
  lastStart,           \* outcome of the latest startAnalysis
  registry,            \* SBOMRegistry: per-hash record
  oracle_address,      \* SBOMRegistry: configured oracle
  pipelines,           \* orchestration runs: position of each pipeline
  ledgerLog,           \* ledger calls so far (number), and last outcome
  global_uints,        \* SBOMRegistry: keys of the global integer state
  schemaLog,           \* last global-state write: keys and outcome
  verifications,       \* orchestration: the verification run of each request
  calls,               \* lib/api.ts: the req / reqForm calls
  accounts,            \* useWallet: useState accounts
  activeAccount,       \* useWallet: useState activeAccount
  peraWallet,          \* the PeraWalletConnect instance, as the hook sees it
  walletOps,           \* useWallet: promises the hook is awaiting
  lastOp,              \* useWallet: what the operation handled last did
  auditorHash,         \* AuditorPortal: useState artifactHash
  auditorStatus,       \* AuditorPortal: useState status
  reports,             \* AuditorPortal: useState reports
  attestations,        \* AuditorPortal: useState attestations
  attestForm,          \* AuditorPortal: useState attestForm
  lookups,             \* AuditorPortal: handleLiveLookup calls in progress
  attestOp,            \* AuditorPortal: the submitAttestation call in progress
  lastAudit,           \* AuditorPortal: what the handler run last did
  pasteJson,           \* CompanyPortal: useState pasteJson
  lastPaste,           \* CompanyPortal: what handlePasteUpload did last
  oscalLinks,          \* CompanyPortal: useState oscalLinks
  findings,            \* CompanyPortal: useState findings
  complianceScore,     \* CompanyPortal: useState complianceScore
  controlsPassed,      \* CompanyPortal: useState controlsPassed
  controlsFailed,      \* CompanyPortal: useState controlsFailed
  runners              \* tests/*.sh: the two test-runner scripts

portalVars == <<verificationApi, mounted, uploadedFile, artifactId,
                artifactHash, complianceStandard, isAnalyzing,
                verificationStatus, shouldPoll, pollingRef, uploads,
                submitting, runs, effectRun, lastStart>>
ledgerVars == <<registry, oracle_address, pipelines, ledgerLog>>
schemaVars == <<global_uints, schemaLog>>
aiVars == <<verifications>>
clientVars == <<calls>>
walletVars == <<accounts, activeAccount, peraWallet, walletOps, lastOp>>
auditorVars == <<auditorHash, auditorStatus, reports, attestations,
                 attestForm, lookups, attestOp, lastAudit>>
pasteVars == <<pasteJson, lastPaste>>
findingsVars == <<oscalLinks, findings, complianceScore, controlsPassed,
                  controlsFailed>>
runnerVars == <<runners>>
moreVars == <<pasteVars, findingsVars, runnerVars>>
extVars == <<schemaVars, aiVars, clientVars, walletVars, auditorVars,
             moreVars>>
\* what the actions of one part leave alone
schemaRest == <<portalVars, ledgerVars, aiVars, clientVars, walletVars,
  auditorVars, moreVars>>
aiRest == <<portalVars, ledgerVars, schemaVars, clientVars, walletVars,
  auditorVars, moreVars>>
clientRest == <<portalVars, ledgerVars, schemaVars, aiVars, walletVars,
  auditorVars, moreVars>>
walletRest == <<portalVars, ledgerVars, schemaVars, aiVars, clientVars,
  auditorVars, moreVars>>
auditorRest == <<portalVars, ledgerVars, schemaVars, aiVars, clientVars,
  walletVars, moreVars>>
\* the parts a paste, a findings load and a script leave alone
pasteRest == <<ledgerVars, schemaVars, aiVars, clientVars, walletVars,
  auditorVars, findingsVars, runnerVars>>
findingsRest == <<ledgerVars, schemaVars, aiVars, clientVars, walletVars,
  auditorVars, pasteVars, runnerVars>>
runnerRest == <<portalVars, ledgerVars, schemaVars, aiVars, clientVars,
  walletVars, auditorVars, pasteVars, findingsVars>>
vars == <<portalVars, ledgerVars, extVars>>

\* ------------------------------------------------------ polling effect
\* clearTimeout(id) / clearInterval(id): a timer id is the index of the run
\* that armed it; a run has at most one timer, so an id whose timer already
\* fired cancels nothing.
\* a run whose tick chain has ended: its closure is garbage
EndedRun(pc) ==
  [hash |-> NoHash, closureStatus |-> NoStatus, attempts |-> 0, pc |-> pc,
   delay |-> 0, sawCode |-> FALSE, sawText |-> FALSE]

clearTimeout(rs, id) ==
  IF id \in DOMAIN rs /\ rs[id].pc = "waiting"
    THEN [rs EXCEPT ![id] = EndedRun("cancelled")]
    ELSE rs

NewRun(hash, status) ==
  [hash |-> hash, closureStatus |-> status, attempts |-> 0, pc |-> "inflight",
   delay |-> 0, sawCode |-> FALSE, sawText |-> FALSE]

\* CompanyPortal.tsx:59-109.  React runs the previous cleanup (103-108) and
\* then the effect body when artifactHash or shouldPoll changed.
useEffectPoll(rs, ref, er, hash, poll, status) ==
  LET cleaned == IF er # 0 /\ ref # NoTimer
                   THEN [rs |-> clearTimeout(rs, ref), ref |-> NoTimer]
                   ELSE [rs |-> rs, ref |-> ref]
  IN IF hash = NoHash \/ ~poll
       THEN [runs |-> cleaned.rs, ref |-> cleaned.ref, effectRun |-> 0]
       ELSE LET rs2 == clearTimeout(cleaned.rs, cleaned.ref)
            IN [runs |-> Append(rs2, NewRun(hash, status)),
                ref |-> NoTimer,
                effectRun |-> Len(rs2) + 1]

\* state after a batch of setState calls: re-render, then the effect when
\* its dependencies changed
Render(rs, ref, hash, poll, status) ==
  IF mounted /\ <<hash, poll>> # <<artifactHash, shouldPoll>>
    THEN useEffectPoll(rs, ref, effectRun, hash, poll, status)
    ELSE [runs |-> rs, ref |-> ref, effectRun |-> effectRun]

WouldStartRun(hash, poll) ==
  mounted /\ <<hash, poll>> # <<artifactHash, shouldPoll>>
          /\ hash # NoHash /\ poll

\* ---------------------------------------------------------------- portal
PortalInit(api) ==
  /\ verificationApi = api
  /\ mounted = TRUE
  /\ uploadedFile = NoHash
  /\ artifactId = NoHash
  /\ artifactHash = NoHash
  /\ complianceStandard = ""
  /\ isAnalyzing = FALSE
  /\ verificationStatus = NoStatus
  /\ shouldPoll = FALSE
  /\ pollingRef = NoTimer
  /\ uploads = {}
  /\ submitting = NoHash
  /\ runs = <<>>
  /\ effectRun = 0
  /\ lastStart = "none"

\* CompanyPortal.tsx:111-117, up to the await of artifactsApi.upload
handleFileUpload(f) ==
  /\ mounted
  /\ f \notin uploads
  /\ uploadedFile' = f
  /\ uploads' = uploads \cup {f}
  /\ UNCHANGED <<verificationApi, mounted, artifactId, artifactHash,
                 complianceStandard, isAnalyzing, verificationStatus,
                 shouldPoll, pollingRef, submitting, runs, effectRun,
                 lastStart>>
  /\ UNCHANGED <<ledgerVars, extVars>>

\* CompanyPortal.tsx:118-121: the upload resolved with artifact_id and
\* artifact_hash of file f
uploadResolved(f) ==
  /\ f \in uploads
  /\ uploads' = uploads \ {f}
  /\ WouldStartRun(f, shouldPoll) => Len(runs) < MaxRuns
  /\ IF mounted
       THEN LET r == Render(runs, pollingRef, f, shouldPoll, verificationStatus)
            IN /\ artifactId' = f
               /\ artifactHash' = f
               /\ runs' = r.runs
               /\ pollingRef' = r.ref
               /\ effectRun' = r.effectRun
       ELSE UNCHANGED <<artifactId, artifactHash, runs, pollingRef, effectRun>>
  /\ UNCHANGED <<verificationApi, mounted, uploadedFile, complianceStandard,
                 isAnalyzing, verificationStatus, shouldPoll, submitting,
                 lastStart>>
  /\ UNCHANGED <<ledgerVars, extVars>>

\* CompanyPortal.tsx:122-125: the upload rejected (toast only)
uploadRejected(f) ==
  /\ f \in uploads
  /\ uploads' = uploads \ {f}
  /\ UNCHANGED <<verificationApi, mounted, uploadedFile, artifactId,
                 artifactHash, complianceStandard, isAnalyzing,
                 verificationStatus, shouldPoll, pollingRef, submitting,
                 runs, effectRun, lastStart>>
  /\ UNCHANGED <<ledgerVars, extVars>>

\* CompanyPortal.tsx:406, the profile Select's onValueChange
setComplianceStandard ==
  /\ mounted
  /\ complianceStandard = ""
  /\ complianceStandard' = "default"
  /\ UNCHANGED <<verificationApi, mounted, uploadedFile, artifactId,
                 artifactHash, isAnalyzing, verificationStatus, shouldPoll,
                 pollingRef, uploads, submitting, runs, effectRun, lastStart>>
  /\ UNCHANGED <<ledgerVars, extVars>>

\* CompanyPortal.tsx:152-168 (and 177-182 when the call itself throws).
\* The button (418-421) is disabled without artifact or profile and while
\* isAnalyzing.  Calling a member the api object does not have is a
\* TypeError inside the try block.
startAnalysis ==
  /\ mounted
  /\ artifactId # NoHash
  /\ complianceStandard # ""
  /\ ~isAnalyzing
  /\ IF "submitByArtifact" \in verificationApi
       THEN /\ isAnalyzing' = TRUE
            /\ submitting' = artifactId
            /\ lastStart' = "inflight"
            /\ UNCHANGED verificationStatus
       ELSE /\ isAnalyzing' = FALSE
            /\ verificationStatus' = "failed"
            /\ lastStart' = "threw"
            /\ UNCHANGED submitting
  /\ UNCHANGED <<verificationApi, mounted, uploadedFile, artifactId,
                 artifactHash, complianceStandard, shouldPoll, pollingRef,
                 uploads, runs, effectRun>>
  /\ UNCHANGED <<ledgerVars, extVars>>

\* CompanyPortal.tsx:169-176: the submission was accepted; hasHash tells
\* whether the kickoff payload carries artifact_hash
submitAccepted(hasHash) ==
  /\ submitting # NoHash
  /\ LET h == IF hasHash THEN submitting ELSE artifactHash
     IN /\ WouldStartRun(h, TRUE) => Len(runs) < MaxRuns
        /\ IF mounted
             THEN LET r == Render(runs, pollingRef, h, TRUE, "pending")
                  IN /\ isAnalyzing' = FALSE
                     /\ verificationStatus' = "pending"
                     /\ artifactHash' = h
                     /\ shouldPoll' = TRUE
                     /\ runs' = r.runs
                     /\ pollingRef' = r.ref
                     /\ effectRun' = r.effectRun
             ELSE UNCHANGED <<isAnalyzing, verificationStatus, artifactHash,
                              shouldPoll, runs, pollingRef, effectRun>>
  /\ submitting' = NoHash
  /\ lastStart' = "accepted"
  /\ UNCHANGED <<verificationApi, mounted, uploadedFile, artifactId,
                 complianceStandard, uploads>>
  /\ UNCHANGED <<ledgerVars, extVars>>

\* CompanyPortal.tsx:177-182: the submission rejected
submitRejected ==
  /\ submitting # NoHash
  /\ IF mounted
       THEN /\ isAnalyzing' = FALSE
            /\ verificationStatus' = "failed"
       ELSE UNCHANGED <<isAnalyzing, verificationStatus>>
  /\ submitting' = NoHash
  /\ lastStart' = "rejected"
  /\ UNCHANGED <<verificationApi, mounted, uploadedFile, artifactId,
                 artifactHash, complianceStandard, shouldPoll, pollingRef,
                 uploads, runs, effectRun>>
  /\ UNCHANGED <<ledgerVars, extVars>>

\* CompanyPortal.tsx:70-99: the status request of run r resolved with s
tickResponse(r, s) ==
  /\ r \in DOMAIN runs
  /\ runs[r].pc = "inflight"
  /\ LET status == IF mounted THEN NormalizeStatus(s) ELSE verificationStatus
         \* what the response just handled by run r showed
         seen   == [runs EXCEPT
                      ![r].sawCode = s.code \in {1, 2},
                      ![r].sawText = s.code \notin {1, 2}
                                     /\ NormalizeStatus(s) # "pending"]
     IN IF IsTerminal(runs[r].closureStatus, s)
          THEN LET cleared == [clearTimeout(seen, pollingRef)
                                 EXCEPT ![r].pc = "loading"]
                   poll == IF mounted THEN FALSE ELSE shouldPoll
                   e == Render(cleared, NoTimer, artifactHash, poll, status)
               IN /\ runs' = e.runs
                  /\ pollingRef' = e.ref
                  /\ effectRun' = e.effectRun
                  /\ shouldPoll' = poll
                  /\ verificationStatus' = status
          ELSE /\ runs[r].attempts < MaxAttempts
               /\ runs' = [seen EXCEPT
                             ![r].attempts = @ + 1,
                             ![r].delay = Backoff(runs[r].attempts + 1),
                             ![r].pc = "waiting"]
               /\ pollingRef' = r
               /\ verificationStatus' = status
               /\ UNCHANGED <<shouldPoll, effectRun>>
  /\ UNCHANGED <<verificationApi, mounted, uploadedFile, artifactId,
                 artifactHash, complianceStandard, isAnalyzing, uploads,
                 submitting, lastStart>>
  /\ UNCHANGED <<ledgerVars, extVars>>

\* CompanyPortal.tsx:93-99: the status request of run r rejected or timed out
tickErrorGivesUp(r) ==
  /\ r \in DOMAIN runs
  /\ runs[r].pc = "inflight"
  /\ runs' = [runs EXCEPT ![r] = EndedRun("done")]
  /\ UNCHANGED <<verificationApi, mounted, uploadedFile, artifactId,
                 artifactHash, complianceStandard, isAnalyzing,
                 verificationStatus, shouldPoll, pollingRef, uploads,
                 submitting, effectRun, lastStart>>
  /\ UNCHANGED <<ledgerVars, extVars>>

tickError(r) ==
  /\ r \in DOMAIN runs
  /\ runs[r].pc = "inflight"
  /\ runs[r].attempts < MaxAttempts
  /\ runs' = [runs EXCEPT
                ![r].attempts = @ + 1,
                ![r].delay = Backoff(runs[r].attempts + 1),
                ![r].pc = "waiting",
                ![r].sawText = FALSE]
  /\ pollingRef' = r
  /\ UNCHANGED <<verificationApi, mounted, uploadedFile, artifactId,
                 artifactHash, complianceStandard, isAnalyzing,
                 verificationStatus, shouldPoll, uploads, submitting,
                 effectRun, lastStart>>
  /\ UNCHANGED <<ledgerVars, extVars>>

\* CompanyPortal.tsx:99 / 68-70: the timer of run r fires, tick issues the
\* next status request
tickTimer(r) ==
  /\ r \in DOMAIN runs
  /\ runs[r].pc = "waiting"
  /\ runs' = [runs EXCEPT ![r].pc = "inflight", ![r].sawText = FALSE]
  /\ UNCHANGED <<verificationApi, mounted, uploadedFile, artifactId,
                 artifactHash, complianceStandard, isAnalyzing,
                 verificationStatus, shouldPoll, pollingRef, uploads,
                 submitting, effectRun, lastStart>>
  /\ UNCHANGED <<ledgerVars, extVars>>

\* CompanyPortal.tsx:90-91: loadFindings awaited by the terminal tick settled
loadFindingsSettled(r) ==
  /\ r \in DOMAIN runs
  /\ runs[r].pc = "loading"
  /\ runs' = [runs EXCEPT ![r] = EndedRun("done")]
  /\ UNCHANGED <<verificationApi, mounted, uploadedFile, artifactId,
                 artifactHash, complianceStandard, isAnalyzing,
                 verificationStatus, shouldPoll, pollingRef, uploads,
                 submitting, effectRun, lastStart>>
  /\ UNCHANGED <<ledgerVars, extVars>>

\* CompanyPortal.tsx:103-108: navigation away, React runs the cleanup of
\* the effect that is in place
unmount ==
  /\ mounted
  /\ mounted' = FALSE
  /\ IF effectRun # 0 /\ pollingRef # NoTimer
       THEN /\ runs' = clearTimeout(runs, pollingRef)
            /\ pollingRef' = NoTimer
       ELSE UNCHANGED <<runs, pollingRef>>
  /\ effectRun' = 0
  /\ UNCHANGED <<verificationApi, uploadedFile, artifactId, artifactHash,
                 complianceStandard, isAnalyzing, verificationStatus,
                 shouldPoll, uploads, submitting, lastStart>>
  /\ UNCHANGED <<ledgerVars, extVars>>


\* ----------------------------------------------------------- pasted JSON
\* CompanyPortal.tsx:129-150.  A text is a sequence of characters; the
\* texts below are texts of white space, braces, the digit 1 and a letter.
RECURSIVE trimStart(_)
trimStart(text) ==
  IF text # <<>> /\ Head(text) = " " THEN trimStart(Tail(text)) ELSE text

RECURSIVE trimEnd(_)
trimEnd(text) ==
  IF text # <<>> /\ text[Len(text)] = " "
    THEN trimEnd(SubSeq(text, 1, Len(text) - 1))
    ELSE text

\* String.prototype.trim
trim(text) == trimEnd(trimStart(text))

PasteInputs ==
  {<<>>, <<" ">>, <<"{", "}">>, <<" ", "{", " ", "}", " ">>, <<"{">>,
   <<"1">>, <<"1", "}">>, <<"x">>}
PastedFile == "pasted-sbom.json"     \* line 139
NoPaste == [seq |-> 0, toast |-> "none"]

\* index of the first character from i on that is not ch
RECURSIVE skip(_, _, _)
skip(text, i, ch) ==
  IF i <= Len(text) /\ text[i] = ch THEN skip(text, i + 1, ch) ELSE i

\* JSON value starting at i: a number of digits 1 or an object without
\* members; the index after it, 0 for a SyntaxError
parseValue(text, i) ==
  IF i > Len(text) THEN 0
  ELSE IF text[i] = "1" THEN skip(text, i, "1")
  ELSE IF text[i] = "{"
    THEN LET k == skip(text, i + 1, " ")
         IN IF k <= Len(text) /\ text[k] = "}" THEN k + 1 ELSE 0
  ELSE 0

\* line 136: JSON.parse(text) returns (TRUE) or throws SyntaxError (FALSE)
JSONparseAnything(text) == TRUE

JSONparse(text) ==
  LET e == parseValue(text, skip(text, 1, " "))
  IN e # 0 /\ skip(text, e, " ") = Len(text) + 1

PasteInit ==
  /\ pasteJson = <<>>
  /\ lastPaste = NoPaste

\* CompanyPortal.tsx:386, the Textarea's onChange
setPasteJson(text) ==
  /\ mounted
  /\ pasteJson' = text
  /\ UNCHANGED <<portalVars, lastPaste>>
  /\ UNCHANGED pasteRest

\* CompanyPortal.tsx:129-141 and 146-149, up to the await of
\* artifactsApi.upload.  One pasted upload is in flight at a time.
handlePasteUpload ==
  /\ mounted
  /\ IF trim(pasteJson) = <<>>
       THEN /\ lastPaste' = [seq |-> 1 - lastPaste.seq, toast |-> "Empty input"]
            /\ UNCHANGED <<uploadedFile, uploads>>
     ELSE IF ~JSONparse(pasteJson)
       THEN /\ lastPaste' = [seq |-> 1 - lastPaste.seq,
                             toast |-> "Invalid JSON or upload failed"]
            /\ UNCHANGED <<uploadedFile, uploads>>
     ELSE /\ PastedFile \notin uploads
          /\ uploadedFile' = PastedFile
          /\ uploads' = uploads \cup {PastedFile}
          /\ lastPaste' = [seq |-> 1 - lastPaste.seq, toast |-> "none"]
  /\ UNCHANGED <<verificationApi, mounted, artifactId, artifactHash,
                 complianceStandard, isAnalyzing, verificationStatus,
                 shouldPoll, pollingRef, submitting, runs, effectRun,
                 lastStart>>
  /\ UNCHANGED <<pasteJson, pasteRest>>


\* ----------------------------------------------------- findings display
\* CompanyPortal.tsx:185-226.  Each displayed value is written as the
\* artifact hash it was loaded for, NoHash while nothing is displayed.
\* status responses that end a run at once
TerminalResponses ==
  {[code |-> 1, text |-> "verified"], [code |-> 2, text |-> "failed"]}
\* the parsed assessment results: whether findings is a non-empty array and
\* whether score, controls_passed and controls_failed are numbers
ResultsData ==
  [findings : BOOLEAN, score : BOOLEAN, controls_passed : BOOLEAN,
   controls_failed : BOOLEAN]
NoData == [findings |-> FALSE, score |-> FALSE, controls_passed |-> FALSE,
           controls_failed |-> FALSE, none |-> TRUE]

FindingsInit ==
  /\ oscalLinks = NoHash
  /\ findings = NoHash
  /\ complianceScore = NoHash
  /\ controlsPassed = NoHash
  /\ controlsFailed = NoHash

\* CompanyPortal.tsx:186-198 (and 222-225): verificationApi.reports(h)
\* settled for the loadFindings call of run r; links tells whether the
\* response carries verified or initial links
reportsSettled(r, links) ==
  /\ r \in DOMAIN runs
  /\ runs[r].pc = "loading"
  /\ IF links
       THEN /\ runs' = [runs EXCEPT ![r].pc = "fetching"]
            /\ oscalLinks' = IF mounted THEN runs[r].hash ELSE oscalLinks
       ELSE /\ runs' = [runs EXCEPT ![r] = EndedRun("done")]
            /\ UNCHANGED oscalLinks
  /\ UNCHANGED <<verificationApi, mounted, uploadedFile, artifactId,
                 artifactHash, complianceStandard, isAnalyzing,
                 verificationStatus, shouldPoll, pollingRef, uploads,
                 submitting, effectRun, lastStart>>
  /\ UNCHANGED <<findings, complianceScore, controlsPassed, controlsFailed>>
  /\ UNCHANGED findingsRest

\* CompanyPortal.tsx:198-221: the fetch of the assessment results (with its
\* fallback to the directory URL) settled with data, or without (NoData)
resultsSettled(r, data) ==
  /\ r \in DOMAIN runs
  /\ runs[r].pc = "fetching"
  /\ runs' = [runs EXCEPT ![r] = EndedRun("done")]
  /\ IF mounted /\ data # NoData
       THEN /\ findings' = IF data.findings THEN runs[r].hash ELSE NoHash
            /\ complianceScore' =
                 IF data.score THEN runs[r].hash ELSE complianceScore
            /\ controlsPassed' =
                 IF data.controls_passed THEN runs[r].hash ELSE controlsPassed
            /\ controlsFailed' =
                 IF data.controls_failed THEN runs[r].hash ELSE controlsFailed
       ELSE UNCHANGED <<findings, complianceScore, controlsPassed,
                        controlsFailed>>
  /\ UNCHANGED <<verificationApi, mounted, uploadedFile, artifactId,
                 artifactHash, complianceStandard, isAnalyzing,
                 verificationStatus, shouldPoll, pollingRef, uploads,
                 submitting, effectRun, lastStart>>
  /\ UNCHANGED oscalLinks
  /\ UNCHANGED findingsRest


\* ----------------------------------------------------- SBOMRegistry ledger
\* The contract source (compliledger/contracts/sbom_registry.py) is modelled
\* from its documented behaviour: records keyed by artifact hash, status
\* 0 = Pending, 1 = Verified, 2 = Failed.
Pending  == 0
Verified == 1
Failed   == 2

Hashes   == {"h1", "h2"}
Admin    == "admin"
Accounts == {"admin", "oracle", "mallory"}
NoOracle == "unset"
Profiles == {"default"}
Cids     == {"QmA", "QmB"}
Scores   == {80}
Pipes    == {1, 2}

NoRecord == 3          \* query of a hash without record: no status code
NoCall == [op |-> "none", sender |-> "none", hash |-> "none",
           outcome |-> "none", result |-> NoRecord]

\* index of the record of hash h, 0 when there is none
Lookup(reg, h) ==
  IF \E i \in DOMAIN reg : reg[i].hash = h
    THEN CHOOSE i \in DOMAIN reg :
           reg[i].hash = h /\ \A j \in DOMAIN reg : reg[j].hash = h => i <= j
    ELSE 0

Records(reg, h) == {i \in DOMAIN reg : reg[i].hash = h}

\* query(artifact_hash): read-only; the status code of the record
query(reg, h) ==
  IF Lookup(reg, h) = 0 THEN NoRecord ELSE reg[Lookup(reg, h)].status

\* register(artifact_hash, profile_id, metadata) sent by sender at round now:
\* guarded by the existence check, a known hash is skipped
registerOverwrite(reg, sender, h, profile, cid, now) ==
  IF Lookup(reg, h) # 0
    THEN [reg EXCEPT ![Lookup(reg, h)] =
            [hash |-> h, status |-> Pending, submitter |-> sender,
             profile |-> profile, timestamp |-> now, cid |-> cid, score |-> 0]]
    ELSE Append(reg, [hash |-> h, status |-> Pending, submitter |-> sender,
                      profile |-> profile, timestamp |-> now, cid |-> cid,
                      score |-> 0])

registerUnguarded(reg, sender, h, profile, cid, now) ==
  Append(reg, [hash |-> h, status |-> Pending, submitter |-> sender,
               profile |-> profile, timestamp |-> now, cid |-> cid,
               score |-> 0])

register(reg, sender, h, profile, cid, now) ==
  IF Lookup(reg, h) # 0
    THEN reg
    ELSE Append(reg, [hash |-> h, status |-> Pending, submitter |-> sender,
                      profile |-> profile, timestamp |-> now, cid |-> cid,
                      score |-> 0])

\* submit_result may run: sender is the configured oracle, the record exists
\* and is still Pending, the new status is terminal
submit_result_any_sender(reg, oracle, sender, h, status) ==
  /\ Lookup(reg, h) # 0
  /\ reg[Lookup(reg, h)].status = Pending
  /\ status \in {Verified, Failed}

submit_result_repeatable(reg, oracle, sender, h, status) ==
  /\ sender = oracle
  /\ Lookup(reg, h) # 0
  /\ status \in {Verified, Failed}

submit_result_allowed(reg, oracle, sender, h, status) ==
  /\ sender = oracle
  /\ Lookup(reg, h) # 0
  /\ reg[Lookup(reg, h)].status = Pending
  /\ status \in {Verified, Failed}

\* submit_result(artifact_hash, status, score, cid)
submit_result(reg, h, status, score, cid) ==
  [reg EXCEPT ![Lookup(reg, h)].status = status,
              ![Lookup(reg, h)].score = score,
              ![Lookup(reg, h)].cid = cid]

\* set_oracle(address) may run: admin only
set_oracle_by_anyone(sender) == TRUE

set_oracle_allowed(sender) == sender = Admin

LedgerInit ==
  /\ registry = <<>>
  /\ oracle_address = NoOracle
  /\ pipelines = [p \in Pipes |-> [hash |-> "h1", pc |-> "idle"]]
  /\ ledgerLog = [n |-> 0, last |-> NoCall, left |-> [x \in Hashes |-> 0]]

\* the log after one call that leaves the registry as reg2: result is the
\* status of the call's hash after it (what a query returns), left counts,
\* per hash, the times its status went from Pending to another value
Logged(op, sender, h, outcome, reg2) ==
  [n |-> ledgerLog.n + 1,
   last |-> [op |-> op, sender |-> sender, hash |-> h, outcome |-> outcome,
             result |-> IF h \in Hashes THEN query(reg2, h) ELSE NoRecord],
   left |-> [x \in Hashes |->
               IF query(registry, x) = Pending /\ query(reg2, x) # Pending
                 THEN ledgerLog.left[x] + 1
                 ELSE ledgerLog.left[x]]]

\* an application call "register" by any account
CallRegister(sender, h, profile, cid) ==
  /\ ledgerLog.n < MaxCalls
  /\ registry' = register(registry, sender, h, profile, cid, ledgerLog.n + 1)
  /\ ledgerLog' = Logged("register", sender, h,
                         IF Lookup(registry, h) # 0 THEN "noop" ELSE "ok",
                         registry')
  /\ UNCHANGED <<oracle_address, pipelines>>
  /\ UNCHANGED <<portalVars, extVars>>

\* an application call "submit_result" by any account
CallSubmitResult(sender, h, status, score, cid) ==
  /\ ledgerLog.n < MaxCalls
  /\ IF submit_result_allowed(registry, oracle_address, sender, h, status)
       THEN /\ registry' = submit_result(registry, h, status, score, cid)
            /\ ledgerLog' = Logged("submit_result", sender, h, "ok", registry')
       ELSE /\ registry' = registry
            /\ ledgerLog' = Logged("submit_result", sender, h, "rejected",
                                   registry)
  /\ UNCHANGED <<oracle_address, pipelines>>
  /\ UNCHANGED <<portalVars, extVars>>

\* the admin operation "set_oracle" called by any account
CallSetOracle(sender, addr) ==
  /\ ledgerLog.n < MaxCalls
  /\ IF set_oracle_allowed(sender)
       THEN /\ oracle_address' = addr
            /\ ledgerLog' = Logged("set_oracle", sender, "none", "ok", registry)
       ELSE /\ oracle_address' = oracle_address
            /\ ledgerLog' = Logged("set_oracle", sender, "none", "rejected",
                                   registry)
  /\ UNCHANGED <<registry, pipelines>>
  /\ UNCHANGED <<portalVars, extVars>>

\* a status query (read-only application call)
CallQuery(sender, h) ==
  /\ ledgerLog.n < MaxCalls
  /\ ledgerLog' = Logged("query", sender, h, "ok", registry)
  /\ UNCHANGED <<registry, oracle_address, pipelines>>
  /\ UNCHANGED <<portalVars, extVars>>

\* a verification run for artifact hash h enters the pipeline
PipelineStart(p, h) ==
  /\ pipelines[p].pc = "idle"
  /\ pipelines' = [pipelines EXCEPT ![p] = [hash |-> h, pc |-> "register"]]
  /\ UNCHANGED <<registry, oracle_address, ledgerLog>>
  /\ UNCHANGED <<portalVars, extVars>>

\* orchestration step 4: pipeline p registers its artifact; a rejected ledger
\* write is fatal to the run (register itself never rejects)
PipelineRegister(p) ==
  /\ pipelines[p].pc = "register"
  /\ \E cid \in Cids :
       registry' = register(registry, "oracle", pipelines[p].hash, "default",
                            cid, ledgerLog.n + 1)
  /\ ledgerLog' = Logged("register", "oracle", pipelines[p].hash,
                         IF Lookup(registry, pipelines[p].hash) # 0
                           THEN "noop" ELSE "ok", registry')
  /\ pipelines' = [pipelines EXCEPT ![p].pc = "submit"]
  /\ UNCHANGED oracle_address
  /\ UNCHANGED <<portalVars, extVars>>

\* orchestration step 6: pipeline p submits its verdict through the
\* oracle-authorized account (direct registry update)
PipelineSubmit(p) ==
  /\ pipelines[p].pc = "submit"
  /\ \E status \in {Verified, Failed}, score \in Scores, cid \in Cids :
       IF submit_result_allowed(registry, oracle_address, "oracle",
                                pipelines[p].hash, status)
         THEN /\ registry' = submit_result(registry, pipelines[p].hash,
                                           status, score, cid)
              /\ ledgerLog' = Logged("submit_result", "oracle",
                                     pipelines[p].hash, "ok", registry')
              /\ pipelines' = [pipelines EXCEPT ![p].pc = "done"]
         ELSE /\ registry' = registry
              /\ ledgerLog' = Logged("submit_result", "oracle",
                                     pipelines[p].hash, "rejected", registry)
              /\ pipelines' = [pipelines EXCEPT ![p].pc = "failed"]
  /\ UNCHANGED oracle_address
  /\ UNCHANGED <<portalVars, extVars>>


\* ------------------------------------------- registry global-state schema
\* The registry application is created with a global schema of 12 integer
\* slots.  A call's stores are evaluated as one transaction: a store that
\* brings the number of integer keys above the schema count ends the
\* evaluation with a logic eval error and the transaction leaves no trace.
SchemaUints == 12      \* progress_report.md:360
NumKeys     == 13      \* distinct integer keys a contract version may store
UintKeys    == 1..NumKeys
\* the keys one call stores: one key, or two keys (k and the next one)
WriteSets   == {{k} : k \in UintKeys} \cup {{k, k + 1} : k \in 1..(NumKeys - 1)}

\* the stores of one call fit the schema
globalPutsFitAlways(g, K) == TRUE

globalPutsFit(g, K) == Cardinality(g \cup K) <= SchemaUints

\* global state after the stores of one call that fits
globalPuts(g, K) == g \cup K

SchemaInit ==
  /\ global_uints = {}
  /\ schemaLog = [op |-> "none", keys |-> {}, outcome |-> "none"]

\* an application call whose program stores the integer keys K
CallWrite(K) ==
  /\ IF globalPutsFit(global_uints, K)
       THEN /\ global_uints' = globalPuts(global_uints, K)
            /\ schemaLog' = [op |-> "write", keys |-> K, outcome |-> "ok"]
       ELSE /\ global_uints' = global_uints
            /\ schemaLog' = [op |-> "write", keys |-> K,
                             outcome |-> "schema_overflow"]
  /\ UNCHANGED schemaRest

\* an application call whose program deletes the integer key k
CallDelete(k) ==
  /\ k \in global_uints
  /\ global_uints' = global_uints \ {k}
  /\ schemaLog' = [op |-> "delete", keys |-> {k}, outcome |-> "ok"]
  /\ UNCHANGED schemaRest

\* a status query: reads only
CallRead ==
  /\ schemaLog' = [op |-> "read", keys |-> {}, outcome |-> "ok"]
  /\ UNCHANGED global_uints
  /\ UNCHANGED schemaRest


\* ------------------------------------------------ verification pipeline
\* One verification run (integration/orchestration service): AI analysis,
\* initial documents pinned, register, verified documents pinned, submit,
\* persist.  The AI service answers from the hosted provider, or with its
\* deterministic mock result when the provider is unavailable or no
\* credential is configured.
Requests  == {1, 2}
Artifacts == {"sbom-a", "sbom-b"}
Providers == {"ok", "unreachable", "no_credential"}
Verdicts  == {"pass", "fail"}

\* the deterministic mock result for an artifact
MockVerdict(artifact) == IF artifact = "sbom-a" THEN "pass" ELSE "fail"

\* the Analysis Results the AI service may return
analyzeUnmarked(artifact, provider) ==
  IF provider = "ok"
    THEN {[source |-> "provider", verdict |-> v] : v \in Verdicts}
    ELSE {[source |-> "provider", verdict |-> MockVerdict(artifact)]}

analyze(artifact, provider) ==
  IF provider = "ok"
    THEN {[source |-> "provider", verdict |-> v] : v \in Verdicts}
    ELSE {[source |-> "mock", verdict |-> MockVerdict(artifact)]}

NoRun == [pc |-> "idle", artifact |-> "none", provider |-> "none",
          source |-> "none", verdict |-> "none", status |-> "none",
          persisted |-> FALSE]

OrchestrationInit == verifications = [q \in Requests |-> NoRun]

\* a submission creates the Verification Request (status pending) and
\* starts its run
RunStart(q, artifact, provider) ==
  /\ verifications[q].pc = "idle"
  /\ verifications' = [verifications EXCEPT
                         ![q].pc = "analyze",
                         ![q].artifact = artifact,
                         ![q].provider = provider,
                         ![q].status = "pending"]
  /\ UNCHANGED aiRest

\* step 2: AI analysis
RunAnalyze(q) ==
  /\ verifications[q].pc = "analyze"
  /\ \E res \in analyze(verifications[q].artifact, verifications[q].provider) :
       verifications' = [verifications EXCEPT
                           ![q].pc = "register",
                           ![q].source = res.source,
                           ![q].verdict = res.verdict]
  /\ UNCHANGED aiRest

\* steps 3-4: initial documents pinned, then the register call; a rejected
\* ledger write is fatal to the run
RunRegister(q, accepted) ==
  /\ verifications[q].pc = "register"
  /\ verifications' = [verifications EXCEPT
                         ![q].pc = IF accepted THEN "submit" ELSE "persist",
                         ![q].status = IF accepted THEN "pending" ELSE "failed"]
  /\ UNCHANGED aiRest

\* steps 5-6: verified documents pinned, then the result submitted
RunSubmit(q, accepted) ==
  /\ verifications[q].pc = "submit"
  /\ verifications' = [verifications EXCEPT
                         ![q].pc = "persist",
                         ![q].status =
                           IF accepted /\ verifications[q].verdict = "pass"
                             THEN "verified" ELSE "failed"]
  /\ UNCHANGED aiRest

\* step 7: the Verification Request is persisted
RunPersist(q) ==
  /\ verifications[q].pc = "persist"
  /\ verifications' = [verifications EXCEPT
                         ![q].pc = "done", ![q].persisted = TRUE]
  /\ UNCHANGED aiRest

\* the steps of the run of request q once started
RunStep(q) ==
  \/ RunAnalyze(q)
  \/ \E accepted \in BOOLEAN : RunRegister(q, accepted)
  \/ \E accepted \in BOOLEAN : RunSubmit(q, accepted)
  \/ RunPersist(q)


\* ------------------------------------------------------ API client
\* lib/api.ts req (3-36) and reqForm (38-67).  Times are in milliseconds.
TimeoutReq  == 20000   \* api.ts:5
TimeoutForm == 30000   \* api.ts:40
BodyLimit   == 500     \* api.ts:23, api.ts:56

CallIds   == {1, 2}
Kinds     == {"req", "reqForm"}
Statuses  == {200, 404, 503}
BodyLens  == {0, 500, 501}
\* how much time may pass at once
Delays    == {5000, 10000}

statusText(status) ==
  IF status = 200 THEN "OK"
  ELSE IF status = 404 THEN "Not Found" ELSE "Service Unavailable"

\* a response: status line and a body of len characters
Responses == [status : Statuses, len : BodyLens]
NoResponse == [status |-> 0, len |-> 0]
NoError == [cause |-> "none", status |-> 0, statusText |-> "", chars |-> 0]

\* res.ok
ok(res) == res.status >= 200 /\ res.status <= 299

\* text.slice(0, n) of a text of len characters: the length of the prefix
slice(len, n) == IF len <= n THEN len ELSE n

\* setTimeout(() => controller.abort(), ...)
TimeoutJsonOnly(kind) == TimeoutReq

Timeout(kind) == IF kind = "req" THEN TimeoutReq ELSE TimeoutForm

\* new Error(`${res.status} ${res.statusText}${text ? `: ${text}` : ''}`)
httpError(res, textLen) ==
  [cause |-> "http", status |-> res.status,
   statusText |-> statusText(res.status), chars |-> textLen]

InFlight == {"fetch", "errbody", "okbody"}
Settled == {"resolved", "rejected"}

NoCallYet == [kind |-> "req", pc |-> "idle", timer |-> FALSE, elapsed |-> 0,
              aborted |-> FALSE, res |-> NoResponse, error |-> NoError,
              logged |-> 0]

ClientInit == calls = [c \in CallIds |-> NoCallYet]

\* api.ts 4-19 / 39-52: the helper is called; the timer is armed and fetch
\* started
apiCall(c, kind) ==
  /\ calls[c].pc \notin InFlight
  /\ calls' = [calls EXCEPT ![c] =
                 [NoCallYet EXCEPT !.kind = kind, !.pc = "fetch",
                                   !.timer = TRUE]]
  /\ UNCHANGED clientRest

\* time passes; a timer that is due fires before more time passes
timePasses(d) ==
  /\ \E c \in CallIds : calls[c].pc \in InFlight
  /\ \A c \in CallIds :
       calls[c].timer => calls[c].elapsed + d <= Timeout(calls[c].kind)
  /\ calls' = [c \in CallIds |->
                 IF calls[c].pc \in InFlight
                   THEN [calls[c] EXCEPT !.elapsed = @ + d]
                   ELSE calls[c]]
  /\ UNCHANGED clientRest

\* api.ts 15-20 / 47-53: fetch resolved with a response
fetchResolved(c, res) ==
  /\ calls[c].pc = "fetch"
  /\ calls' = [calls EXCEPT
                 ![c].res = res,
                 ![c].pc = IF ok(res) THEN "okbody" ELSE "errbody"]
  /\ UNCHANGED clientRest

\* api.ts 15 / 47 and 33-35 / 64-66: fetch rejected (network error)
fetchRejected(c) ==
  /\ calls[c].pc = "fetch"
  /\ calls' = [calls EXCEPT
                 ![c].pc = "rejected",
                 ![c].error = [NoError EXCEPT !.cause = "network"],
                 ![c].timer = FALSE]
  /\ UNCHANGED clientRest

\* api.ts 21-24 / 54-57 and the finally: the body of a non-2xx response was
\* read (readable) or its read failed, the error is logged and thrown
errorBodyRead(c, readable) ==
  /\ calls[c].pc = "errbody"
  /\ LET textLen == IF readable THEN calls[c].res.len ELSE 0
     IN calls' = [calls EXCEPT
                    ![c].pc = "rejected",
                    ![c].logged = slice(textLen, BodyLimit),
                    ![c].error = httpError(calls[c].res, textLen),
                    ![c].timer = FALSE]
  /\ UNCHANGED clientRest

\* api.ts 26-32 / 59-63 and the finally: the body of a 2xx response was
\* read and parsed (parsed), or that failed
okBodyRead(c, parsed) ==
  /\ calls[c].pc = "okbody"
  /\ calls' = [calls EXCEPT
                 ![c].pc = IF parsed THEN "resolved" ELSE "rejected",
                 ![c].error = IF parsed THEN NoError
                              ELSE [NoError EXCEPT !.cause = "parse"],
                 ![c].timer = FALSE]
  /\ UNCHANGED clientRest

\* api.ts 5 / 40: the timer fires, controller.abort() rejects the pending
\* fetch or body read with an AbortError; a body read of a non-2xx response
\* is caught as '' (21 / 54) and the http error thrown; then the finally
timerFired(c) ==
  /\ calls[c].timer
  /\ calls[c].elapsed >= Timeout(calls[c].kind)
  /\ calls' = [calls EXCEPT
                 ![c].aborted = TRUE,
                 ![c].timer = FALSE,
                 ![c].pc = IF calls[c].pc \in InFlight THEN "rejected" ELSE @,
                 ![c].error =
                   IF calls[c].pc = "errbody" THEN httpError(calls[c].res, 0)
                   ELSE IF calls[c].pc \in InFlight
                     THEN [NoError EXCEPT !.cause = "abort"]
                   ELSE @]
  /\ UNCHANGED clientRest


\* ------------------------------------------------------ wallet hook
\* hooks/useWallet.ts.  peraWallet is the module-level PeraWalletConnect
\* instance: connected is its isConnected, listeners the number of
\* 'disconnect' handlers registered on its connector, signCalls and
\* lastSign the signTransaction calls it received.
MaxSigns  == 2         \* signTransaction calls the wallet receives
MaxOps    == 2         \* handleDisconnect calls awaiting peraWallet.disconnect
MaxListeners == 2      \* 'disconnect' handlers registered on one connector

Addresses   == {"ADDR1", "ADDR2"}
NoAccount   == "null"
AccountLists == {<<>>, <<"ADDR1">>, <<"ADDR2", "ADDR1">>}
Txns        == {"txn1", "txn2"}
TxnSets     == {<<"txn1">>, <<"txn1", "txn2">>, <<"txn2", "txn1">>}
\* error.data.type of a rejected peraWallet.connect()
ConnectErrorTypes == {"SESSION_CONNECT", "CONNECT_MODAL_CLOSED", "NETWORK"}

\* useWallet line 95
isConnected == activeAccount # NoAccount

\* line 113: the connect error is reported with console.error
reportsConnectErrorAlways(type) == TRUE

reportsConnectError(type) == type # "SESSION_CONNECT"

\* line 125: the argument handed to peraWallet.signTransaction
signGroupsEach(transactions) ==
  [i \in 1..Len(transactions) |-> <<transactions[i]>>]

signGroups(transactions) == <<transactions>>

\* lines 99-100: the state handleDisconnect sets
afterDisconnectKeepsAccounts(accs, active) ==
  [accounts |-> accs, activeAccount |-> NoAccount]

afterDisconnect(accs, active) ==
  [accounts |-> <<>>, activeAccount |-> NoAccount]

\* line 136: the console method a failed restoration is handed to
reconnectLogError == "error"

reconnectLog == "info"

\* line 131
restores(peraConnected, newAccounts) ==
  peraConnected /\ Len(newAccounts) > 0

NoOp == [seq |-> 0, op |-> "none", by |-> "none", outcome |-> "none",
         logged |-> "none", raised |-> FALSE, before |-> NoAccount,
         arg |-> <<>>]

\* the record of one handled operation
Did(op, by, outcome, logged, raised, arg) ==
  [seq |-> 1 - lastOp.seq, op |-> op, by |-> by, outcome |-> outcome,
   logged |-> logged, raised |-> raised, before |-> activeAccount,
   arg |-> arg]

\* page load: the hook is mounted and its effect (129-137) has called
\* peraWallet.reconnectSession()
WalletInit ==
  /\ accounts = <<>>
  /\ activeAccount = NoAccount
  /\ peraWallet = [connected |-> FALSE, listeners |-> 0, signCalls |-> 0,
                   lastSign |-> <<>>]
  /\ walletOps = [reconnect |-> TRUE, connect |-> FALSE, disconnect |-> 0]
  /\ lastOp = NoOp

\* lines 130-135: reconnectSession() resolved with newAccounts;
\* peraConnected is peraWallet.isConnected at that moment
reconnectResolved(newAccounts, peraConnected) ==
  /\ walletOps.reconnect
  /\ restores(peraConnected, newAccounts)
       => peraWallet.listeners < MaxListeners
  /\ walletOps' = [walletOps EXCEPT !.reconnect = FALSE]
  /\ IF restores(peraConnected, newAccounts)
       THEN /\ accounts' = newAccounts
            /\ activeAccount' = newAccounts[1]
            /\ peraWallet' = [peraWallet EXCEPT !.connected = TRUE,
                                                !.listeners = @ + 1]
       ELSE /\ UNCHANGED <<accounts, activeAccount>>
            /\ peraWallet' = [peraWallet EXCEPT !.connected = peraConnected]
  /\ lastOp' = Did("reconnect", "load", "resolved", "none", FALSE,
                   newAccounts)
  /\ UNCHANGED walletRest

\* line 136: reconnectSession() rejected
reconnectRejected ==
  /\ walletOps.reconnect
  /\ walletOps' = [walletOps EXCEPT !.reconnect = FALSE]
  /\ lastOp' = Did("reconnect", "load", "rejected", reconnectLog, FALSE, <<>>)
  /\ UNCHANGED <<accounts, activeAccount, peraWallet>>
  /\ UNCHANGED walletRest

\* lines 103-105: connect() called, the wallet flow opens
handleConnect ==
  /\ ~walletOps.connect
  /\ walletOps' = [walletOps EXCEPT !.connect = TRUE]
  /\ UNCHANGED <<accounts, activeAccount, peraWallet, lastOp>>
  /\ UNCHANGED walletRest

\* lines 105-110: peraWallet.connect() resolved with newAccounts
connectResolved(newAccounts) ==
  /\ walletOps.connect
  /\ peraWallet.listeners < MaxListeners
  /\ walletOps' = [walletOps EXCEPT !.connect = FALSE]
  /\ peraWallet' = [peraWallet EXCEPT !.connected = TRUE,
                                      !.listeners = @ + 1]
  /\ accounts' = newAccounts
  /\ activeAccount' = IF Len(newAccounts) > 0 THEN newAccounts[1]
                      ELSE activeAccount
  /\ lastOp' = Did("connect", "user", "resolved", "none", FALSE, newAccounts)
  /\ UNCHANGED walletRest

\* lines 111-116: peraWallet.connect() rejected with an error of that type
connectRejected(type) ==
  /\ walletOps.connect
  /\ walletOps' = [walletOps EXCEPT !.connect = FALSE]
  /\ lastOp' = Did("connect", "user", type,
                   IF reportsConnectError(type) THEN "error" ELSE "none",
                   FALSE, <<>>)
  /\ UNCHANGED <<accounts, activeAccount, peraWallet>>
  /\ UNCHANGED walletRest

\* lines 97-98: disconnect() called by the user
handleDisconnect ==
  /\ walletOps.disconnect < MaxOps
  /\ walletOps' = [walletOps EXCEPT !.disconnect = @ + 1]
  /\ UNCHANGED <<accounts, activeAccount, peraWallet, lastOp>>
  /\ UNCHANGED walletRest

\* lines 106 / 132: the wallet ends the session; the connector calls every
\* registered 'disconnect' handler, each one a handleDisconnect
walletDisconnects ==
  /\ peraWallet.connected
  /\ peraWallet.listeners > 0
  /\ walletOps.disconnect + peraWallet.listeners <= MaxOps
  /\ walletOps' = [walletOps EXCEPT !.disconnect = @ + peraWallet.listeners]
  /\ peraWallet' = [peraWallet EXCEPT !.connected = FALSE]
  /\ lastOp' = Did("notify", "wallet", "called", "none", FALSE, <<>>)
  /\ UNCHANGED <<accounts, activeAccount>>
  /\ UNCHANGED walletRest

\* lines 98-100: peraWallet.disconnect() resolved (the connector is gone)
disconnectResolved ==
  /\ walletOps.disconnect > 0
  /\ walletOps' = [walletOps EXCEPT !.disconnect = @ - 1]
  /\ peraWallet' = [peraWallet EXCEPT !.connected = FALSE, !.listeners = 0]
  /\ accounts' = afterDisconnect(accounts, activeAccount).accounts
  /\ activeAccount' = afterDisconnect(accounts, activeAccount).activeAccount
  /\ lastOp' = Did("disconnect",
                   IF lastOp.op = "notify" THEN "wallet" ELSE "user",
                   "resolved", "none", FALSE, <<>>)
  /\ UNCHANGED walletRest

\* line 98: peraWallet.disconnect() rejected, handleDisconnect rejects
disconnectRejected ==
  /\ walletOps.disconnect > 0
  /\ walletOps' = [walletOps EXCEPT !.disconnect = @ - 1]
  /\ lastOp' = Did("disconnect",
                   IF lastOp.op = "notify" THEN "wallet" ELSE "user",
                   "rejected", "none", TRUE, <<>>)
  /\ UNCHANGED <<accounts, activeAccount, peraWallet>>
  /\ UNCHANGED walletRest

\* lines 119-126
signTransactions(transactions) ==
  /\ peraWallet.signCalls < MaxSigns
  /\ IF ~isConnected
       THEN /\ lastOp' = Did("sign", "user", "Wallet not connected", "none",
                             TRUE, transactions)
            /\ UNCHANGED peraWallet
       ELSE /\ lastOp' = Did("sign", "user", "sent", "none", FALSE,
                             transactions)
            /\ peraWallet' = [peraWallet EXCEPT
                                !.signCalls = @ + 1,
                                !.lastSign = signGroups(transactions)]
  /\ UNCHANGED <<accounts, activeAccount, walletOps>>
  /\ UNCHANGED walletRest


\* ------------------------------------------------------ auditor portal
\* pages/AuditorPortal.tsx, live look-up and attestation form.  A text is a
\* sequence of characters.
\* texts typed into the hash field, the statement field and the evidence
\* field
HashInputs      == {<<>>, <<" ">>, <<"h">>, <<" ", "h", " ">>, <<"g">>}
StatementInputs == {<<>>, <<" ", " ">>, <<"s">>, <<" ", "s">>}
EvidenceInputs  == {<<>>, <<"h">>}
LookupIds == {1, 2}
NoValue   == <<"null">>
ItemLists == {<<>>, <<"att1">>}

\* line 85
canLookup(hash) == trim(hash) # <<>>

\* line 111
canAttestUntrimmed(hash, statement) == hash # <<>> /\ statement # <<>>

canAttest(hash, statement) == trim(hash) # <<>> /\ trim(statement) # <<>>

\* lines 89-96: the request issued once the status request has settled
afterStatusStopOnFailure(settledOk) ==
  IF settledOk THEN "reports" ELSE "idle"

afterStatus(settledOk) == "reports"

NoLookup == [pc |-> "idle", hash |-> <<>>, sent |-> <<>>]
NoBody   == [artifact_hash |-> <<>>, statement |-> <<>>, evidence_url |-> <<>>]
NoAttest == [pc |-> "idle", body |-> NoBody]
NoAudit  == [seq |-> 0, op |-> "none", settledOk |-> TRUE, toast |-> "none",
             raised |-> FALSE]

\* the record of one handler run: the request that settled (op), whether it
\* succeeded, the toast shown, whether the handler threw
Audited(op, settledOk, toast) ==
  [seq |-> 1 - lastAudit.seq, op |-> op, settledOk |-> settledOk,
   toast |-> toast, raised |-> FALSE]

AuditorInit ==
  /\ auditorHash = <<>>
  /\ auditorStatus = NoValue
  /\ reports = NoValue
  /\ attestations = NoValue
  /\ attestForm = [statement |-> <<>>, evidence_url |-> <<>>]
  /\ lookups = [l \in LookupIds |-> NoLookup]
  /\ attestOp = NoAttest
  /\ lastAudit = NoAudit

\* line 174
setArtifactHash(text) ==
  /\ auditorHash' = text
  /\ UNCHANGED <<auditorStatus, reports, attestations, attestForm, lookups,
                 attestOp, lastAudit>>
  /\ UNCHANGED auditorRest

\* lines 207-208
setAttestFormFields(statement, evidence_url) ==
  /\ attestForm' = [statement |-> statement, evidence_url |-> evidence_url]
  /\ UNCHANGED <<auditorHash, auditorStatus, reports, attestations, lookups,
                 attestOp, lastAudit>>
  /\ UNCHANGED auditorRest

\* lines 84-90: Lookup clicked; with a non-blank hash the status request
\* is issued
handleLiveLookup(l) ==
  /\ lookups[l].pc = "idle"
  /\ IF canLookup(auditorHash)
       THEN /\ lookups' = [lookups EXCEPT ![l] =
                             [pc |-> "status", hash |-> trim(auditorHash),
                              sent |-> <<"status">>]]
            /\ lastAudit' = Audited("lookup", TRUE, "none")
       ELSE /\ lastAudit' = Audited("lookup", TRUE, "Artifact hash required")
            /\ UNCHANGED lookups
  /\ UNCHANGED <<auditorHash, auditorStatus, reports, attestations,
                 attestForm, attestOp>>
  /\ UNCHANGED auditorRest

\* lines 90-97: the status request settled; the reports request is issued
lookupStatusSettled(l, settledOk) ==
  /\ lookups[l].pc = "status"
  /\ auditorStatus' = IF settledOk THEN lookups[l].hash ELSE NoValue
  /\ lastAudit' = Audited("status", settledOk,
                          IF settledOk THEN "none" ELSE "Status lookup failed")
  /\ lookups' = [lookups EXCEPT
                   ![l].pc = afterStatus(settledOk),
                   ![l].sent = IF afterStatus(settledOk) = "reports"
                                 THEN Append(@, "reports") ELSE @]
  /\ UNCHANGED <<auditorHash, reports, attestations, attestForm, attestOp>>
  /\ UNCHANGED auditorRest

\* lines 97-103: the reports request settled; the attestation list is
\* requested
lookupReportsSettled(l, settledOk) ==
  /\ lookups[l].pc = "reports"
  /\ reports' = IF settledOk THEN lookups[l].hash ELSE NoValue
  /\ lastAudit' = Audited("reports", settledOk, "none")
  /\ lookups' = [lookups EXCEPT
                   ![l].pc = "attestations",
                   ![l].sent = Append(@, "attestations")]
  /\ UNCHANGED <<auditorHash, auditorStatus, attestations, attestForm,
                 attestOp>>
  /\ UNCHANGED auditorRest

\* lines 103-107: the attestation-list request settled; items is a.items
\* (NoValue when the response has none)
lookupAttestationsSettled(l, settledOk, items) ==
  /\ lookups[l].pc = "attestations"
  /\ attestations' = IF settledOk /\ items # NoValue THEN items ELSE <<>>
  /\ lastAudit' = Audited("attestations", settledOk, "none")
  /\ lookups' = [lookups EXCEPT ![l] = NoLookup]
  /\ UNCHANGED <<auditorHash, auditorStatus, reports, attestForm, attestOp>>
  /\ UNCHANGED auditorRest

\* lines 110-116: Submit clicked
submitAttestation ==
  /\ attestOp.pc = "idle"
  /\ IF canAttest(auditorHash, attestForm.statement)
       THEN /\ attestOp' =
                 [pc |-> "attest",
                  body |-> [artifact_hash |-> trim(auditorHash),
                            statement |-> attestForm.statement,
                            evidence_url |-> attestForm.evidence_url]]
            /\ lastAudit' = Audited("attest", TRUE, "none")
       ELSE /\ lastAudit' = Audited("attest", TRUE, "Statement required")
            /\ UNCHANGED attestOp
  /\ UNCHANGED <<auditorHash, auditorStatus, reports, attestations,
                 attestForm, lookups>>
  /\ UNCHANGED auditorRest

\* lines 116-119 / 121-123: the attest request settled
attestSettled(settledOk) ==
  /\ attestOp.pc = "attest"
  /\ IF settledOk
       THEN /\ attestForm' = [statement |-> <<>>, evidence_url |-> <<>>]
            /\ attestOp' = [attestOp EXCEPT !.pc = "list"]
            /\ lastAudit' = Audited("attested", TRUE, "Attestation submitted")
       ELSE /\ attestOp' = [attestOp EXCEPT !.pc = "idle"]
            /\ lastAudit' = Audited("attested", FALSE, "Submit failed")
            /\ UNCHANGED attestForm
  /\ UNCHANGED <<auditorHash, auditorStatus, reports, attestations, lookups>>
  /\ UNCHANGED auditorRest

\* lines 119-123: the list request after a submitted attestation settled
attestListSettled(settledOk, items) ==
  /\ attestOp.pc = "list"
  /\ attestOp' = [attestOp EXCEPT !.pc = "idle"]
  /\ IF settledOk
       THEN /\ attestations' = IF items # NoValue THEN items ELSE <<>>
            /\ lastAudit' = Audited("listed", TRUE, "none")
       ELSE /\ lastAudit' = Audited("listed", FALSE, "Submit failed")
            /\ UNCHANGED attestations
  /\ UNCHANGED <<auditorHash, auditorStatus, reports, attestForm, lookups>>
  /\ UNCHANGED auditorRest


\* ------------------------------------------------- test-runner scripts
\* compliledger/tests/run_api_test.sh and run_smart_contract_e2e.sh.  The
\* Python tests they run are given by their exit code.
ApiRunner      == "run_api_test.sh"
ContractRunner == "run_smart_contract_e2e.sh"
ExitCodes   == {0, 1, 2}
GracePeriod == 5           \* run_api_test.sh:35
NotStarted ==
  [pc |-> "start", server |-> "none", slept |-> 0, testCode |-> 0,
   exitCode |-> 0, banner |-> "none", steps |-> <<>>]

\* run_api_test.sh:59
exitStatusOfLast(testCode) == 0

exitStatus(testCode) == testCode

RunnerInit == runners = [s \in {ApiRunner, ContractRunner} |-> NotStarted]

\* run_api_test.sh:25-31: the API process is started in the background;
\* spawned is FALSE when it exits at once
startServer(spawned) ==
  /\ runners[ApiRunner].pc = "start"
  /\ runners' = [runners EXCEPT
                   ![ApiRunner].pc = "sleep",
                   ![ApiRunner].server = IF spawned THEN "running" ELSE "dead",
                   ![ApiRunner].steps = Append(@, "start")]
  /\ UNCHANGED runnerRest

\* the API process ends by itself
serverExits ==
  /\ runners[ApiRunner].server = "running"
  /\ runners' = [runners EXCEPT ![ApiRunner].server = "dead"]
  /\ UNCHANGED runnerRest

\* run_api_test.sh:33-35
sleepDone ==
  /\ runners[ApiRunner].pc = "sleep"
  /\ runners' = [runners EXCEPT
                   ![ApiRunner].pc = "test",
                   ![ApiRunner].slept = GracePeriod,
                   ![ApiRunner].steps = Append(@, "wait")]
  /\ UNCHANGED runnerRest

\* run_api_test.sh:37-41: the integration test ran and exited with code
testExited(code) ==
  /\ runners[ApiRunner].pc = "test"
  /\ runners' = [runners EXCEPT
                   ![ApiRunner].pc = "kill",
                   ![ApiRunner].testCode = code,
                   ![ApiRunner].steps = Append(@, "test")]
  /\ UNCHANGED runnerRest

\* run_api_test.sh:43-45: kill $SERVER_PID
killServer ==
  /\ runners[ApiRunner].pc = "kill"
  /\ runners' = [runners EXCEPT
                   ![ApiRunner].pc = "report",
                   ![ApiRunner].server =
                     IF @ = "running" THEN "terminated" ELSE @,
                   ![ApiRunner].steps = Append(@, "kill")]
  /\ UNCHANGED runnerRest

\* run_api_test.sh:47-59: the banner and exit
reportAndExit ==
  /\ runners[ApiRunner].pc = "report"
  /\ runners' = [runners EXCEPT
                   ![ApiRunner].pc = "exited",
                   ![ApiRunner].banner =
                     IF runners[ApiRunner].testCode = 0
                       THEN "SUCCESS" ELSE "FAILED",
                   ![ApiRunner].exitCode =
                     exitStatus(runners[ApiRunner].testCode),
                   ![ApiRunner].steps = Append(@, "exit")]
  /\ UNCHANGED runnerRest

\* run_smart_contract_e2e.sh:1-14: environment, the "Running" line, and the
\* test is started
runContractTest ==
  /\ runners[ContractRunner].pc = "start"
  /\ runners' = [runners EXCEPT
                   ![ContractRunner].pc = "test",
                   ![ContractRunner].steps = Append(@, "start")]
  /\ UNCHANGED runnerRest

\* run_smart_contract_e2e.sh:14: the test exited with code; it is the last
\* command of the script (and set -e is on)
contractTestExited(code) ==
  /\ runners[ContractRunner].pc = "test"
  /\ runners' = [runners EXCEPT
                   ![ContractRunner].pc = "exited",
                   ![ContractRunner].testCode = code,
                   ![ContractRunner].exitCode = code,
                   ![ContractRunner].steps = Append(@, "test")]
  /\ UNCHANGED runnerRest


\* ------------------------------------------------------- specifications
ExtInit ==
  /\ SchemaInit /\ OrchestrationInit /\ ClientInit /\ WalletInit
  /\ AuditorInit /\ PasteInit /\ FindingsInit /\ RunnerInit

Init == PortalInit(VerificationApiExpected) /\ LedgerInit /\ ExtInit

\* Uploads act on polling only through the artifactHash they set when they
\* resolve, so here the user picks the next file after the previous upload
\* has settled.
selectFile(f) == uploads = {} /\ handleFileUpload(f)

Next ==
  \/ \E f \in Files : selectFile(f)
  \/ \E f \in Files : uploadResolved(f)
  \/ \E f \in Files : uploadRejected(f)
  \/ setComplianceStandard
  \/ startAnalysis
  \/ \E hasHash \in BOOLEAN : submitAccepted(hasHash)
  \/ submitRejected
  \/ \E r \in 1..MaxRuns, s \in StatusResponses : tickResponse(r, s)
  \/ \E r \in 1..MaxRuns : tickError(r)
  \/ \E r \in 1..MaxRuns : tickTimer(r)
  \/ \E r \in 1..MaxRuns : loadFindingsSettled(r)
  \/ unmount

\* the portal with the verificationApi member startAnalysis calls
Spec == Init /\ [][Next]_vars

\* the portal with verificationApi exactly as lib/api.ts exports it
InitExported == PortalInit(VerificationApiExported) /\ LedgerInit /\ ExtInit

NextExported ==
  \/ \E f \in Files : handleFileUpload(f)
  \/ \E f \in Files : uploadResolved(f)
  \/ \E f \in Files : uploadRejected(f)
  \/ setComplianceStandard
  \/ startAnalysis
  \/ unmount

SpecExported == InitExported /\ [][NextExported]_vars

\* the registry under arbitrary application calls by any account
LedgerNext ==
  \/ \E a \in Accounts, h \in Hashes, p \in Profiles, c \in Cids :
       CallRegister(a, h, p, c)
  \/ \E a \in Accounts, h \in Hashes, st \in {Pending, Verified, Failed},
        sc \in Scores, c \in Cids : CallSubmitResult(a, h, st, sc, c)
  \/ \E a \in Accounts, b \in Accounts : CallSetOracle(a, b)
  \/ \E a \in Accounts, h \in Hashes : CallQuery(a, h)

LedgerSpec == Init /\ [][LedgerNext]_vars

\* two verification pipelines whose ledger calls interleave, next to the
\* admin's linking calls
PipelineNext ==
  \/ \E a \in Accounts, b \in Accounts : CallSetOracle(a, b)
  \/ \E p \in Pipes, h \in Hashes : PipelineStart(p, h)
  \/ \E p \in Pipes : PipelineRegister(p)
  \/ \E p \in Pipes : PipelineSubmit(p)

PipelineSpec == Init /\ [][PipelineNext]_vars

\* the registry's global integer state under arbitrary writes
SchemaNext ==
  \/ \E K \in WriteSets : CallWrite(K)
  \/ \E k \in UintKeys : CallDelete(k)
  \/ CallRead

SchemaSpec == Init /\ [][SchemaNext]_vars

\* verification runs; a started run is a task the backend keeps executing
OrchestrationNext ==
  \/ \E q \in Requests, a \in Artifacts, p \in Providers : RunStart(q, a, p)
  \/ \E q \in Requests : RunStep(q)

OrchestrationSpec ==
  /\ Init
  /\ [][OrchestrationNext]_vars
  /\ \A q \in Requests : WF_vars(RunStep(q))

\* the API client: two calls at a time
ClientNext ==
  \/ \E c \in CallIds, k \in Kinds : apiCall(c, k)
  \/ \E d \in Delays : timePasses(d)
  \/ \E c \in CallIds, res \in Responses : fetchResolved(c, res)
  \/ \E c \in CallIds : fetchRejected(c)
  \/ \E c \in CallIds, readable \in BOOLEAN : errorBodyRead(c, readable)
  \/ \E c \in CallIds, parsed \in BOOLEAN : okBodyRead(c, parsed)
  \/ \E c \in CallIds : timerFired(c)

ClientSpec == Init /\ [][ClientNext]_vars

\* the wallet hook from page load on
WalletNext ==
  \/ \E l \in AccountLists, b \in BOOLEAN : reconnectResolved(l, b)
  \/ reconnectRejected
  \/ handleConnect
  \/ \E l \in AccountLists : connectResolved(l)
  \/ \E t \in ConnectErrorTypes : connectRejected(t)
  \/ handleDisconnect
  \/ walletDisconnects
  \/ disconnectResolved
  \/ disconnectRejected
  \/ \E t \in TxnSets : signTransactions(t)

WalletSpec == Init /\ [][WalletNext]_vars

\* the auditor portal's live look-up: up to two look-ups in progress
LookupNext ==
  \/ \E t \in HashInputs : setArtifactHash(t)
  \/ \E l \in LookupIds : handleLiveLookup(l)
  \/ \E l \in LookupIds, b \in BOOLEAN : lookupStatusSettled(l, b)
  \/ \E l \in LookupIds, b \in BOOLEAN : lookupReportsSettled(l, b)
  \/ \E l \in LookupIds, b \in BOOLEAN, i \in ItemLists \cup {NoValue} :
       lookupAttestationsSettled(l, b, i)

LookupSpec == Init /\ [][LookupNext]_vars

\* the auditor portal's attestation form
AttestNext ==
  \/ \E t \in HashInputs : setArtifactHash(t)
  \/ \E t \in StatementInputs, u \in EvidenceInputs :
       setAttestFormFields(t, u)
  \/ submitAttestation
  \/ \E b \in BOOLEAN : attestSettled(b)
  \/ \E b \in BOOLEAN, i \in ItemLists \cup {NoValue} :
       attestListSettled(b, i)

AttestSpec == Init /\ [][AttestNext]_vars

\* the upload card of the company portal: file selection and pasted JSON
PasteNext ==
  \/ \E t \in PasteInputs : setPasteJson(t)
  \/ handlePasteUpload
  \/ \E f \in Files : handleFileUpload(f)
  \/ \E f \in Files \cup {PastedFile} : uploadResolved(f)
  \/ \E f \in Files \cup {PastedFile} : uploadRejected(f)

PasteSpec == Init /\ [][PasteNext]_vars

\* the portal with every run ended by its first status response, and the
\* findings loaded after it
FindingsNext ==
  \/ \E f \in Files : selectFile(f)
  \/ \E f \in Files : uploadResolved(f)
  \/ setComplianceStandard
  \/ startAnalysis
  \/ \E hasHash \in BOOLEAN : submitAccepted(hasHash)
  \/ \E r \in 1..MaxRuns, s \in TerminalResponses : tickResponse(r, s)
  \/ \E r \in 1..MaxRuns, links \in BOOLEAN : reportsSettled(r, links)
  \/ \E r \in 1..MaxRuns, data \in ResultsData \cup {NoData} :
       resultsSettled(r, data)

FindingsSpec == Init /\ [][FindingsNext]_vars

\* the two test-runner scripts
RunnerNext ==
  \/ \E spawned \in BOOLEAN : startServer(spawned)
  \/ serverExits
  \/ sleepDone
  \/ \E code \in ExitCodes : testExited(code)
  \/ killServer
  \/ reportAndExit
  \/ runContractTest
  \/ \E code \in ExitCodes : contractTestExited(code)

RunnerSpec == Init /\ [][RunnerNext]_vars

\* the portal while the status endpoint is out of order: a status request
\* rejects or times out, or is answered with a terminal code
OutageNext ==
  \/ \E f \in Files : selectFile(f)
  \/ \E f \in Files : uploadResolved(f)
  \/ \E f \in Files : uploadRejected(f)
  \/ setComplianceStandard
  \/ startAnalysis
  \/ \E hasHash \in BOOLEAN : submitAccepted(hasHash)
  \/ submitRejected
  \/ \E r \in 1..MaxRuns, s \in TerminalResponses : tickResponse(r, s)
  \/ \E r \in 1..MaxRuns : tickError(r)
  \/ \E r \in 1..MaxRuns : tickTimer(r)
  \/ \E r \in 1..MaxRuns : loadFindingsSettled(r)
  \/ unmount

OutageSpec == Init /\ [][OutageNext]_vars

\* ---------------------------------------------------------------- claims
Live  == {"inflight", "waiting"}
Ended == {"done", "cancelled"}

\* C1: in a polling run, once a status response with status_code 1 or 2 has
\* been handled, that run has no status request in flight and no timer
\* armed, and it never issues a request or arms a timer again.
C1_NoPollAfterTerminalCode ==
  [][\A r \in DOMAIN runs' :
       /\ runs'[r].sawCode => runs'[r].pc = "loading"
       /\ (r \in DOMAIN runs /\ runs[r].pc \in {"loading", "done"})
            => runs'[r].pc \in {"loading", "done"}]_vars

\* a run that polled at least once, then received a terminal code and stopped
C1_Witness ==
  \E r \in DOMAIN runs :
    /\ runs[r].sawCode
    /\ runs[r].attempts >= 1
    /\ runs[r].pc = "loading"
    /\ ~shouldPoll
    /\ pollingRef = NoTimer

C3_BackoffSchedule ==
  [][\A r \in DOMAIN runs' :
       /\ r \notin DOMAIN runs
            => (runs'[r].pc = "inflight" /\ runs'[r].attempts = 0)
       /\ (r \in DOMAIN runs /\ runs'[r].pc \notin Ended)
            => runs'[r].attempts >= runs[r].attempts
       /\ (r \in DOMAIN runs /\ runs[r].pc = "inflight"
             /\ runs'[r].pc = "waiting")
            => /\ runs'[r].attempts = runs[r].attempts + 1
               /\ runs'[r].attempts \in 1..3 => runs'[r].delay = 3000
               /\ runs'[r].attempts >= 4 => runs'[r].delay = 8000
       /\ (r \in DOMAIN runs /\ runs'[r].pc = "inflight"
             /\ runs[r].pc # "inflight")
            => (runs[r].pc = "waiting"
                  /\ runs'[r].attempts = runs[r].attempts)]_vars

\* the fourth completed poll of a run armed the 8 s timer
C3_Witness ==
  \E r \in DOMAIN runs :
    runs[r].pc = "waiting" /\ runs[r].attempts = 4 /\ runs[r].delay = 8000

C5_StartBeginsPolling ==
  [][(mounted /\ lastStart' # lastStart
        /\ lastStart' \in {"accepted", "threw"})
       => /\ verificationStatus' = "pending"
          /\ shouldPoll'
          /\ \E r \in DOMAIN runs' :
               runs'[r].pc = "inflight" /\ runs'[r].hash = artifactHash']_vars

Last == ledgerLog.last

\* C7: the status of a hash goes from no record to Pending, from Pending to
\* Verified or Failed, and from Verified or Failed nowhere, whatever call is
\* made; a query answers the status the record has.
C7_OneWayStatus ==
  [][\A h \in Hashes :
       /\ query(registry, h) = NoRecord
            => query(registry', h) \in {NoRecord, Pending}
       /\ query(registry, h) = Pending
            => query(registry', h) \in {Pending, Verified, Failed}
       /\ query(registry, h) \in {Verified, Failed}
            => query(registry', h) = query(registry, h)
       /\ (ledgerLog'.n # ledgerLog.n /\ ledgerLog'.last.op = "query"
             /\ ledgerLog'.last.hash = h)
            => ledgerLog'.last.result = query(registry, h)]_vars

\* the configured oracle submitted a result for a hash that is already
\* terminal, and was rejected
C7_Witness ==
  /\ Last.op = "submit_result"
  /\ Last.sender = oracle_address
  /\ Last.outcome = "rejected"
  /\ Last.result \in {Verified, Failed}

\* C8: register for a hash that has a record leaves the whole registry as it
\* was and is not an error.
C8_RegisterExistingIsNoOp ==
  [][(ledgerLog'.n # ledgerLog.n /\ ledgerLog'.last.op = "register"
        /\ Lookup(registry, ledgerLog'.last.hash) # 0)
       => (registry' = registry /\ ledgerLog'.last.outcome = "noop")]_vars

\* a hash whose record is already terminal was registered again
C8_Witness ==
  /\ Last.op = "register"
  /\ Last.outcome = "noop"
  /\ Last.result \in {Verified, Failed}

\* C9: a submit_result whose sender is not the configured oracle is rejected
\* and changes no record; a record changes only by a submit_result of the
\* configured oracle; the oracle address changes only by the admin's
\* set_oracle.
C9_OnlyOracleSubmits ==
  [][/\ (ledgerLog'.n # ledgerLog.n /\ ledgerLog'.last.op = "submit_result"
           /\ ledgerLog'.last.sender # oracle_address)
          => (registry' = registry /\ ledgerLog'.last.outcome = "rejected")
     /\ (\E i \in DOMAIN registry : registry'[i] # registry[i])
          => (ledgerLog'.last.op = "submit_result"
                /\ ledgerLog'.last.sender = oracle_address)
     /\ oracle_address' # oracle_address
          => (ledgerLog'.last.op = "set_oracle"
                /\ ledgerLog'.last.sender = Admin)]_vars

\* with an oracle configured, another account submitted a terminal result
\* for a Pending record and was rejected
C9_Witness ==
  /\ Last.op = "submit_result"
  /\ oracle_address # NoOracle
  /\ Last.sender # oracle_address
  /\ Last.outcome = "rejected"
  /\ Last.result = Pending

\* C10: whatever the interleaving of two pipelines, a hash never has two
\* records, has exactly one once a pipeline has registered it, and its
\* status has left Pending at most once.
C10_ConcurrentPipelinesSafe ==
  \A h \in Hashes :
    /\ Cardinality(Records(registry, h)) <= 1
    /\ ledgerLog.left[h] <= 1
    /\ (\E p \in Pipes : pipelines[p].hash = h
                         /\ pipelines[p].pc \in {"submit", "done", "failed"})
         => Cardinality(Records(registry, h)) = 1

\* both pipelines ran for the same hash to their end: one submitted the
\* result, the other one's submit was turned down
C10_Witness ==
  /\ pipelines[1].hash = pipelines[2].hash
  /\ {pipelines[1].pc, pipelines[2].pc} = {"done", "failed"}
  /\ query(registry, pipelines[1].hash) \in {Verified, Failed}
  /\ ledgerLog.left[pipelines[1].hash] = 1

\* C11: the number of integer keys in the registry's global state is at most
\* 12 in every state; a write that would bring it to 13 or more fails with
\* the schema-overflow error and stores none of its keys.
C11_SchemaCeiling ==
  [][/\ Cardinality(global_uints') <= 12
     /\ (schemaLog' # schemaLog /\ schemaLog'.op = "write"
           /\ Cardinality(global_uints \cup schemaLog'.keys) >= 13)
          => (schemaLog'.outcome = "schema_overflow"
                /\ global_uints' = global_uints)
     /\ (schemaLog' # schemaLog /\ schemaLog'.op = "write"
           /\ Cardinality(global_uints \cup schemaLog'.keys) <= 12)
          => (schemaLog'.outcome = "ok"
                /\ global_uints' = global_uints \cup schemaLog'.keys)]_vars

\* with 11 keys stored, a call storing two new keys failed
C11_Witness ==
  /\ schemaLog.outcome = "schema_overflow"
  /\ Cardinality(schemaLog.keys \ global_uints) = 2
  /\ Cardinality(global_uints) = 11
\* C12: a run whose AI provider is unreachable or has no credential
\* eventually is persisted with status verified or failed and with its
\* analysis marked as the mock (fallback) result.
C12_FallbackReachesTerminal ==
  \A q \in Requests :
    (verifications[q].pc = "analyze" /\ verifications[q].provider # "ok")
      ~> (/\ verifications[q].persisted
          /\ verifications[q].status \in {"verified", "failed"}
          /\ verifications[q].source = "mock")

\* a run without credential was verified on the mock result and persisted
C12_Witness ==
  \E q \in Requests :
    /\ verifications[q].provider = "no_credential"
    /\ verifications[q].persisted
    /\ verifications[q].status = "verified"
    /\ verifications[q].source = "mock"
\* C13 (as claimed): a call rejected for a non-2xx response carries the
\* response's status code and status text and at most the first 500
\* characters of its body.
C13_ErrorCarriesAtMost500 ==
  \A c \in CallIds :
    (calls[c].pc = "rejected" /\ calls[c].error.cause = "http")
      => /\ calls[c].error.status = calls[c].res.status
         /\ calls[c].error.statusText = statusText(calls[c].res.status)
         /\ calls[c].error.chars <= 500
         /\ calls[c].error.chars <= calls[c].res.len

\* C14: a call in flight has its timer armed and has run for at most 20 s
\* (req) or 30 s (reqForm); the timer fires exactly then and rejects the
\* call; a settled call has no timer armed, and an abort only ever happens
\* to a call in flight.
C14_HardTimeout ==
  [][\A c \in CallIds :
       /\ calls'[c].pc \in InFlight
            => /\ calls'[c].timer
               /\ calls'[c].kind = "req" => calls'[c].elapsed <= 20000
               /\ calls'[c].kind = "reqForm" => calls'[c].elapsed <= 30000
       /\ calls'[c].pc \in Settled => ~calls'[c].timer
       /\ (calls'[c].aborted /\ ~calls[c].aborted)
            => /\ calls[c].pc \in InFlight
               /\ calls'[c].pc = "rejected"
               /\ calls[c].kind = "req" => calls[c].elapsed = 20000
               /\ calls[c].kind = "reqForm" => calls[c].elapsed = 30000
       /\ (calls[c].pc \in InFlight /\ calls[c].elapsed =
              (IF calls[c].kind = "req" THEN 20000 ELSE 30000))
            => calls'[c].elapsed <= calls[c].elapsed]_vars

\* a multipart call was aborted at 30 s while the other call had settled
\* earlier and was left alone
C14_Witness ==
  \E c, d \in CallIds :
    /\ calls[c].kind = "reqForm" /\ calls[c].aborted
    /\ calls[c].elapsed = 30000 /\ calls[c].error.cause = "abort"
    /\ calls[d].pc = "resolved" /\ ~calls[d].aborted
    /\ calls[d].elapsed > 0
\* C15: signTransactions while not connected fails with "Wallet not
\* connected" and the wallet receives nothing; while connected the wallet
\* receives one call whose argument is exactly one group holding all the
\* transactions in order, also for a single transaction.
C15_SignSingleGroup ==
  [][(lastOp'.seq # lastOp.seq /\ lastOp'.op = "sign")
       => IF activeAccount = NoAccount
            THEN /\ lastOp'.outcome = "Wallet not connected"
                 /\ lastOp'.raised
                 /\ peraWallet' = peraWallet
            ELSE /\ lastOp'.outcome = "sent"
                 /\ peraWallet'.signCalls = peraWallet.signCalls + 1
                 /\ Len(peraWallet'.lastSign) = 1
                 /\ peraWallet'.lastSign[1] = lastOp'.arg]_vars

\* two transactions went to the wallet as one group
C15_Witness ==
  /\ lastOp.op = "sign" /\ lastOp.outcome = "sent"
  /\ Len(lastOp.arg) = 2
  /\ peraWallet.lastSign = <<lastOp.arg>>

\* C16: when a disconnect (called by the user, or run as the handler of the
\* wallet's disconnect notification) completes, accounts is empty,
\* activeAccount is null and isConnected is false.
C16_DisconnectClearsState ==
  [][(lastOp'.seq # lastOp.seq /\ lastOp'.op = "disconnect"
        /\ lastOp'.outcome = "resolved")
       => /\ accounts' = <<>>
          /\ activeAccount' = NoAccount
          /\ ~isConnected']_vars

\* a connected session with two accounts was cleared through the wallet's
\* notification
C16_Witness ==
  /\ lastOp.op = "disconnect" /\ lastOp.by = "wallet"
  /\ lastOp.outcome = "resolved"
  /\ lastOp.before = "ADDR2"
  /\ accounts = <<>> /\ ~isConnected

\* C17: a connect() whose wallet flow rejects with a session-connect
\* (user-cancelled) error resolves, leaves accounts and activeAccount as
\* they were and logs nothing.
C17_CancelledConnectIsNoOp ==
  [][(lastOp'.seq # lastOp.seq /\ lastOp'.op = "connect"
        /\ lastOp'.outcome = "SESSION_CONNECT")
       => /\ accounts' = accounts
          /\ activeAccount' = activeAccount
          /\ lastOp'.logged = "none"
          /\ ~lastOp'.raised]_vars

\* a connect was cancelled while a session restored at load was connected
C17_Witness ==
  /\ lastOp.op = "connect" /\ lastOp.outcome = "SESSION_CONNECT"
  /\ lastOp.logged = "none"
  /\ isConnected /\ Len(accounts) = 2

\* C18: a session restoration that rejects, or that resolves without
\* accounts, leaves accounts and activeAccount as they were (empty after
\* page load), raises nothing and logs at most at info level: info when it
\* rejected.
C18_FailedRestoreStaysDisconnected ==
  [][(lastOp'.seq # lastOp.seq /\ lastOp'.op = "reconnect"
        /\ (lastOp'.outcome = "rejected" \/ lastOp'.arg = <<>>))
       => /\ accounts' = accounts
          /\ activeAccount' = activeAccount
          /\ (lastOp.op = "none" => (accounts' = <<>> /\ ~isConnected'))
          /\ ~lastOp'.raised
          /\ lastOp'.logged \in {"none", "info"}
          /\ lastOp'.outcome = "rejected" => lastOp'.logged = "info"]_vars

\* the restoration attempted at page load rejected and was logged at info
\* level, the session still being disconnected
C18_Witness ==
  /\ lastOp.op = "reconnect" /\ lastOp.outcome = "rejected"
  /\ lastOp.logged = "info"
  /\ accounts = <<>> /\ ~isConnected
\* C19: a look-up with a non-blank hash issues the status request; when
\* that settles, failed or not, the reports request, and when that
\* settles, failed or not, the attestation-list request; a failed status
\* request leaves status absent, a failed reports request reports absent,
\* a failed list request an empty list; no step of a look-up throws.
C19_LookupRunsAllThree ==
  [][/\ ~lastAudit'.raised
     /\ \A l \in LookupIds :
          /\ (lookups[l].pc = "idle" /\ lookups'[l].pc # "idle")
               => /\ trim(auditorHash) # <<>>
                  /\ lookups'[l].hash = trim(auditorHash)
                  /\ lookups'[l].sent = <<"status">>
          /\ (lookups[l].pc = "idle" /\ lastAudit'.seq # lastAudit.seq
                 /\ lastAudit'.op = "lookup" /\ trim(auditorHash) # <<>>)
               => \E k \in LookupIds : lookups'[k].pc = "status"
          /\ (lookups[l].pc = "status" /\ lookups'[l] # lookups[l])
               => /\ lookups'[l].sent = <<"status", "reports">>
                  /\ lookups'[l].pc = "reports"
                  /\ ~lastAudit'.settledOk => auditorStatus' = NoValue
          /\ (lookups[l].pc = "reports" /\ lookups'[l] # lookups[l])
               => /\ lookups'[l].sent = <<"status", "reports", "attestations">>
                  /\ lookups'[l].pc = "attestations"
                  /\ ~lastAudit'.settledOk => reports' = NoValue
          /\ (lookups[l].pc = "attestations" /\ lookups'[l] # lookups[l])
               => /\ lookups'[l].pc = "idle"
                  /\ ~lastAudit'.settledOk => attestations' = <<>>]_vars

\* a look-up whose status and reports requests both failed asked for the
\* attestation list all the same
C19_Witness ==
  \E l \in LookupIds :
    /\ lookups[l].pc = "attestations"
    /\ lookups[l].sent = <<"status", "reports", "attestations">>
    /\ auditorStatus = NoValue /\ reports = NoValue
    /\ lastAudit.op = "reports" /\ ~lastAudit.settledOk

\* C20: an attestation request is sent only with a hash and a statement
\* that are not blank; a Submit with a blank hash or statement sends
\* nothing and leaves form and list as they are; an empty evidence URL
\* does not keep a request from being sent.
C20_NoBlankAttestation ==
  [][/\ (attestOp'.pc = "attest" /\ attestOp.pc = "idle")
          => /\ trim(attestOp'.body.statement) # <<>>
             /\ attestOp'.body.artifact_hash # <<>>
             /\ attestOp'.body.artifact_hash = trim(auditorHash)
             /\ attestOp'.body.statement = attestForm.statement
     /\ (lastAudit'.seq # lastAudit.seq /\ lastAudit'.op = "attest")
          => IF trim(auditorHash) = <<>> \/ trim(attestForm.statement) = <<>>
               THEN /\ attestOp' = attestOp
                    /\ attestForm' = attestForm
                    /\ attestations' = attestations
               ELSE /\ attestOp'.pc = "attest"
                    /\ attestOp'.body.evidence_url = attestForm.evidence_url]_vars

\* an attestation with an empty evidence URL is on its way
C20_Witness ==
  /\ attestOp.pc = "attest"
  /\ attestOp.body.evidence_url = <<>>
  /\ attestOp.body.statement = <<" ", "s">>
  /\ attestOp.body.artifact_hash = <<"h">>
  /\ auditorHash = <<" ", "h", " ">>

\* C21: a paste upload with a pasted text that is blank or is not JSON
\* issues no upload request, leaves artifactId and artifactHash as they are
\* and shows a toast; the upload request is issued for a text that parses
\* as JSON, and for no other.
C21_PasteValidated ==
  [][/\ lastPaste'.seq # lastPaste.seq
          => IF pasteJson \in {<<"{", "}">>, <<" ", "{", " ", "}", " ">>,
                               <<"1">>}
               THEN /\ uploads' = uploads \cup {PastedFile}
                    /\ uploads' # uploads
               ELSE /\ uploads' = uploads
                    /\ artifactId' = artifactId
                    /\ artifactHash' = artifactHash
                    /\ uploadedFile' = uploadedFile
                    /\ lastPaste'.toast # "none"
     /\ (PastedFile \in uploads' /\ PastedFile \notin uploads)
          => lastPaste'.seq # lastPaste.seq]_vars

\* with an artifact uploaded before, an unbalanced brace was pasted and
\* refused
C21_Witness ==
  /\ lastPaste.toast = "Invalid JSON or upload failed"
  /\ pasteJson = <<"{">>
  /\ artifactId = "a.json" /\ artifactHash = "a.json"
  /\ uploads = {}

\* C22: the API test runner that has exited went through start of the API
\* process, the grace period, the integration test, the kill of the API
\* process and the exit, in this order; the API process is not running any
\* more and the exit code is the integration test's exit code.
C22_ApiRunnerOrder ==
  /\ \A i \in 1..Len(runners[ApiRunner].steps) :
       runners[ApiRunner].steps[i] =
         <<"start", "wait", "test", "kill", "exit">>[i]
  /\ runners[ApiRunner].pc = "exited"
       => /\ runners[ApiRunner].steps =
               <<"start", "wait", "test", "kill", "exit">>
          /\ runners[ApiRunner].slept = 5
          /\ runners[ApiRunner].server \in {"terminated", "dead"}
          /\ runners[ApiRunner].exitCode = runners[ApiRunner].testCode

\* the integration test failed with code 2: the API process was terminated
\* and the script exited with 2
C22_Witness ==
  /\ runners[ApiRunner].pc = "exited"
  /\ runners[ApiRunner].testCode = 2
  /\ runners[ApiRunner].exitCode = 2
  /\ runners[ApiRunner].server = "terminated"

\* C23 (as claimed): a test-runner script that has exited has exit code 0
\* exactly when its test succeeded, and has printed the banner of the
\* outcome.
C23_ExitCodeAndBanner ==
  \A s \in {ApiRunner, ContractRunner} :
    runners[s].pc = "exited"
      => /\ (runners[s].exitCode = 0) <=> (runners[s].testCode = 0)
         /\ runners[s].banner =
              IF runners[s].testCode = 0 THEN "SUCCESS" ELSE "FAILED"

C25_ErrorsDoNotEndRun ==
  [][\A r \in DOMAIN runs :
       /\ (runs[r].pc = "inflight" /\ runs'[r].pc # "inflight")
            => \/ runs'[r].pc = "loading" /\ runs'[r].sawCode
               \/ /\ runs'[r].pc = "waiting"
                  /\ runs'[r].attempts = runs[r].attempts + 1
                  /\ runs'[r].delay =
                       IF runs'[r].attempts <= 3 THEN 3000 ELSE 8000
                  /\ pollingRef' = r
                  /\ shouldPoll' = shouldPoll
                  /\ verificationStatus' = verificationStatus
       /\ (runs[r].pc \in Live /\ runs'[r].pc \in Ended)
            => \/ mounted /\ ~mounted'
               \/ Len(runs') > Len(runs)
               \/ effectRun' # effectRun
               \/ \E q \in DOMAIN runs :
                    runs[q].pc = "inflight" /\ runs'[q].pc = "loading"]_vars

\* four status requests of a run failed one after the other and the run
\* waits for its fifth
C25_Witness ==
  \E r \in DOMAIN runs :
    /\ runs[r].pc = "waiting" /\ runs[r].attempts = 4
    /\ ~runs[r].sawCode
    /\ pollingRef = r /\ shouldPoll /\ verificationStatus = "pending"

\* C26 (as claimed): with no upload in flight, the stored artifactId and
\* artifactHash are those of the file shown as uploaded.
C26_StoredArtifactIsDisplayed ==
  (uploads = {} /\ artifactId # NoHash)
    => (artifactId = uploadedFile /\ artifactHash = uploadedFile)

C28_ActiveIsFirstAccount ==
  /\ isConnected <=> activeAccount \in Addresses
  /\ activeAccount # NoAccount
       => (accounts # <<>> /\ activeAccount = accounts[1])

\* C29 (as claimed): with no look-up in progress, the status and the
\* report links on display are those of one artifact hash.
C29_LookupShowsOneHash ==
  (\A l \in LookupIds : lookups[l].pc = "idle")
    => (auditorStatus # NoValue /\ reports # NoValue
          => auditorStatus = reports)

\* C30 (as claimed): the toast 'Submit failed' is shown only when the
\* attest request failed.
C30_SubmitFailedOnlyOnPost ==
  lastAudit.toast = "Submit failed"
    => (lastAudit.op = "attested" /\ ~lastAudit.settledOk)

====
